---------------------------- MODULE Spec2Model ----------------------------
(***************************************************************************)
(* Model of the execution-gateway resilience core of the code-runner       *)
(* service: the circuit breaker, the concurrency limiter (semaphore) and   *)
(* Judge0Service.submitCode, which composes them around each executor      *)
(* call (lib/judge0.ts).                                                   *)
(*                                                                         *)
(* The service runs on one event loop: a function runs without             *)
(* interruption up to its next await.  Each action below is one such       *)
(* uninterrupted run of submitCode; the actions of different calls         *)
(* interleave freely at the awaits.                                        *)
(***************************************************************************)
EXTENDS Integers, Sequences, FiniteSets

(***************************************************************************)
(* Bounds of the model.                                                    *)
(***************************************************************************)
\* Number of concurrent callers of submitCode.
NumProcs == 3
\* Date.now() at the first step, and how far the clock advances per Tick.
StartNow == 1
TickMs == 7500
\* The clock stops advancing after MaxTicks ticks.
MaxTicks == 4
\* Cap of the two consecutive-result counters, which the code never bounds.
MaxCount == 6

\* The largest number of test cases in a batch.
MaxBatch == 2

\* The longest text of a test case's expected output and of a program's
\* output.
MaxLen == 3

\* The clock of the rate limiter's model: the step of LimiterTick and the
\* number of steps after which it stops.
LimiterTickMs == 30000
LimiterTicks == 4

Procs == 1..NumProcs
MaxNow == StartNow + MaxTicks * TickMs
LimiterMaxNow == StartNow + LimiterTicks * LimiterTickMs

(***************************************************************************)
(* Program constants.                                                      *)
(***************************************************************************)
\* DEFAULT_CIRCUIT_CONFIG
failureThreshold == 5
successThreshold == 3
openDurationMs == 30000
halfOpenMaxRequests == 2
\* The limiter's capacity.  The source sets 20; the model runs the same code
\* with a capacity that NumProcs callers can exhaust.
MAX_CONCURRENT_JUDGE0_TASKS == 2

\* Judge0Service.timeout
timeout == 60000

\* openedAt: number | null.  The code only ever tests it for truthiness
\* (null and 0 are both falsy), so null is written 0.
Null == 0

Max(a, b) == IF a >= b THEN a ELSE b

VARIABLES
    cb,                 \* the CircuitBreaker instance judge0CircuitBreaker
    now,                \* Date.now()
    activeJudge0Tasks,  \* the limiter's counter
    waitQueue,          \* the limiter's queue of resolve callbacks (by caller)
    resumeQueue,        \* the resolved waiters whose continuation has not run
                        \* yet, in the order of their resolution
    pc,                 \* position of each caller in submitCode
    admittedIn,         \* history: breaker state that admitted the caller's
                        \* call; "none" once recordSuccess or recordFailure was
                        \* called for it, "unrecorded" if the call ended without
    failRun,            \* history: recordFailure calls since the last recordSuccess
    suspended,          \* history: "yes" once a caller is queued, "released"
                        \* once a release has happened since
    semHist,            \* history: has any release happened, and the number
                        \* of acquire calls while none had
    lastOp,             \* history: what the last step did
    fetchStartedAt,     \* history: Date.now() when the caller's fetch was issued
    userRateLimits,     \* the rate limiter's Map: key -> timestamps
    seenAt,             \* history: when executionRateLimit last passed a
                        \* request of each key on (-1: never)
    batch,              \* the request that batchSubmit is handling
    graded,             \* the test case result the client's batch route
                        \* built last
    acceptedAt,         \* history: per key, the times of the last requests
                        \* recordRequest accepted (one more than the quota)
    served,             \* the request the middleware chain handled last and
                        \* how far it got
    limiterOut          \* history: the last call of a limiter function, what
                        \* it answered, and in prevAt the time of the key's
                        \* last request passed on before this one (-1: none)

vars == <<cb, now, activeJudge0Tasks, waitQueue, resumeQueue, pc, admittedIn,
          failRun, suspended, semHist, lastOp, fetchStartedAt, userRateLimits,
          seenAt, limiterOut, batch, graded, served, acceptedAt>>

gatewayVars == <<cb, activeJudge0Tasks, waitQueue, resumeQueue, pc, admittedIn,
                 failRun, suspended, semHist, lastOp, fetchStartedAt, batch,
                 graded, served>>

limiterVars == <<userRateLimits, seenAt, limiterOut>>

\* What the steps of submitCode do not touch.
otherVars == <<fetchStartedAt, limiterVars, batch, graded, served, acceptedAt>>

\* What the steps of batchSubmit do not touch either.
batchFrame == <<fetchStartedAt, limiterVars, graded, served, acceptedAt>>

\* What the steps that keep the time of each fetch do not touch either.
timedFrame == <<limiterVars, batch, graded, served, acceptedAt>>

(***************************************************************************)
(* CircuitBreaker                                                          *)
(***************************************************************************)
InitialBreaker ==
    [state |-> "CLOSED", consecutiveFailures |-> 0, consecutiveSuccesses |-> 0,
     openedAt |-> Null, halfOpenRequestsInFlight |-> 0]

\* Faulty variant: the successes counted so far kept on entering HALF_OPEN.
transitionToKeepsSuccesses(b, newState) ==
    IF newState = "CLOSED"
    THEN [b EXCEPT !.state = newState, !.consecutiveFailures = 0,
                   !.consecutiveSuccesses = 0, !.openedAt = Null,
                   !.halfOpenRequestsInFlight = 0]
    ELSE IF newState = "HALF_OPEN"
    THEN [b EXCEPT !.state = newState, !.halfOpenRequestsInFlight = 0]
    ELSE [b EXCEPT !.state = newState]

transitionTo(b, newState) ==
    IF newState = "CLOSED"
    THEN [b EXCEPT !.state = newState, !.consecutiveFailures = 0,
                   !.consecutiveSuccesses = 0, !.openedAt = Null,
                   !.halfOpenRequestsInFlight = 0]
    ELSE IF newState = "HALF_OPEN"
    THEN [b EXCEPT !.state = newState, !.consecutiveSuccesses = 0,
                   !.halfOpenRequestsInFlight = 0]
    ELSE [b EXCEPT !.state = newState]

\* Faulty variant: tripCircuit keeping the time of the first trip.
tripCircuitKeepsOpenedAt(b, t) ==
    transitionTo([b EXCEPT !.openedAt = IF @ # Null THEN @ ELSE t,
                           !.halfOpenRequestsInFlight = 0], "OPEN")

tripCircuit(b, t) ==
    transitionTo([b EXCEPT !.openedAt = t, !.halfOpenRequestsInFlight = 0], "OPEN")

\* Faulty variant: the cooldown test with > for >=.
cooldownElapsedStrict(b, t) ==
    b.openedAt # Null /\ (t - b.openedAt) > openDurationMs

\* The test of the OPEN branch of canProceed.
cooldownElapsed(b, t) ==
    b.openedAt # Null /\ (t - b.openedAt) >= openDurationMs

\* Faulty variant: the trial-slot test with > for >=.
trialSlotsFullStrict(b) ==
    b.halfOpenRequestsInFlight > halfOpenMaxRequests

\* The HALF_OPEN branch of canProceed: is every trial slot taken?
trialSlotsFull(b) ==
    b.halfOpenRequestsInFlight >= halfOpenMaxRequests

\* Faulty variant: the trial counted before the test, so also when denied.
halfOpenBranchCountsDenied(b) ==
    IF trialSlotsFull(b)
    THEN [cb |-> [b EXCEPT !.halfOpenRequestsInFlight = @ + 1],
          allowed |-> FALSE, reason |-> "HALF_OPEN",
          retryIn |-> 0]
    ELSE [cb |-> [b EXCEPT !.halfOpenRequestsInFlight = @ + 1],
          allowed |-> TRUE, reason |-> "none", retryIn |-> 0]

halfOpenBranch(b) ==
    IF trialSlotsFull(b)
    THEN [cb |-> b, allowed |-> FALSE, reason |-> "HALF_OPEN", retryIn |-> 0]
    ELSE [cb |-> [b EXCEPT !.halfOpenRequestsInFlight = @ + 1],
          allowed |-> TRUE, reason |-> "none", retryIn |-> 0]

\* Math.ceil(n / d) for d > 0.
CeilDiv(n, d) == -((-n) \div d)

\* Faulty variant: the time elapsed since the trip instead of the time left.
remainingMsElapsed(b, t) ==
    IF b.openedAt # Null THEN t - b.openedAt ELSE openDurationMs

\* The OPEN branch of canProceed before expiry: the time left.
remainingMs(b, t) ==
    IF b.openedAt # Null THEN openDurationMs - (t - b.openedAt) ELSE openDurationMs

\* The seconds named by "Retry in ...s" in the reason of an OPEN denial.
retrySeconds(b, t) == CeilDiv(remainingMs(b, t), 1000)

\* canProceed at time t: the breaker after the call, the decision, and which
\* of the two denial reasons was given.
canProceed(b, t) ==
    CASE b.state = "CLOSED" ->
            [cb |-> b, allowed |-> TRUE, reason |-> "none", retryIn |-> 0]
      [] b.state = "OPEN" ->
            IF cooldownElapsed(b, t)
            THEN halfOpenBranch(transitionTo(b, "HALF_OPEN"))
            ELSE [cb |-> b, allowed |-> FALSE, reason |-> "OPEN",
                  retryIn |-> retrySeconds(b, t)]
      [] b.state = "HALF_OPEN" ->
            halfOpenBranch(b)

\* Faulty variant: the recovery test with > for >=.
recoveryConfirmedStrict(b) ==
    b.consecutiveSuccesses > successThreshold

recoveryConfirmed(b) ==
    b.consecutiveSuccesses >= successThreshold

\* Faulty variant: a success that leaves the failures counted.
recordSuccessKeepsFailures(b) ==
    LET b1 == [b EXCEPT !.consecutiveSuccesses = @ + 1]
    IN  IF b1.state = "HALF_OPEN"
        THEN LET b2 == [b1 EXCEPT !.halfOpenRequestsInFlight = Max(0, @ - 1)]
             IN  IF recoveryConfirmed(b2) THEN transitionTo(b2, "CLOSED") ELSE b2
        ELSE b1

recordSuccess(b) ==
    LET b1 == [b EXCEPT !.consecutiveFailures = 0, !.consecutiveSuccesses = @ + 1]
    IN  IF b1.state = "HALF_OPEN"
        THEN LET b2 == [b1 EXCEPT !.halfOpenRequestsInFlight = Max(0, @ - 1)]
             IN  IF recoveryConfirmed(b2) THEN transitionTo(b2, "CLOSED") ELSE b2
        ELSE b1

\* Faulty variant: the threshold test with > for >=.
failureThresholdReachedStrict(b) ==
    b.consecutiveFailures > failureThreshold

failureThresholdReached(b) ==
    b.consecutiveFailures >= failureThreshold

recordFailure(b, t) ==
    LET b1 == [b EXCEPT !.consecutiveSuccesses = 0, !.consecutiveFailures = @ + 1]
    IN  IF b1.state = "HALF_OPEN"
        THEN tripCircuit([b1 EXCEPT !.halfOpenRequestsInFlight = Max(0, @ - 1)], t)
        ELSE IF b1.state = "CLOSED"
        THEN IF failureThresholdReached(b1) THEN tripCircuit(b1, t) ELSE b1
        ELSE b1

(***************************************************************************)
(* What an executor call can end with.  An error is its code and the set   *)
(* of the substrings isCircuitTripError looks for that its message holds.  *)
(***************************************************************************)
\* Texts of an error response's body, by the searched substrings they hold.
Bodies == {{}, {"timeout"}}

\* A 200 response with or without a decodable body, a 4xx response with
\* either body, a 5xx response, and three failures of the call itself.
Outcomes ==
    [kind : {"response"}, status : {200}, body : {{}}, json : BOOLEAN, code : {"NONE"}]
    \cup [kind : {"response"}, status : {400}, body : Bodies, json : {TRUE},
          code : {"NONE"}]
    \cup [kind : {"response"}, status : {500}, body : {{}}, json : {TRUE},
          code : {"NONE"}]
    \cup [kind : {"error"}, status : {0}, body : {{}}, json : {TRUE},
          code : {"ECONNREFUSED", "HANGUP", "OTHER"}]

responseOk(o) == o.kind = "response" /\ o.status >= 200 /\ o.status <= 299

\* "HTTP <status>: <body>", as the substrings it holds.
httpErrorMessage(o) ==
    (IF o.status \div 100 = 5 THEN {"HTTP 5"}
     ELSE IF o.status \div 100 = 4 THEN {"HTTP 4"} ELSE {}) \cup o.body

\* The error caught by submitCode for an outcome that is not a success.
thrownError(o) ==
    IF o.kind = "error"
    THEN [code |-> IF o.code \in {"HANGUP", "OTHER"} THEN "NONE" ELSE o.code,
          message |-> IF o.code = "HANGUP" THEN {"socket hang up"} ELSE {}]
    ELSE IF ~responseOk(o)
    THEN [code |-> "NONE", message |-> httpErrorMessage(o)]
    ELSE [code |-> "NONE", message |-> {"invalid json"}]

isCircuitTripError(err) ==
    IF \/ err.code \in {"ECONNRESET", "ECONNREFUSED", "ETIMEDOUT"}
       \/ "socket hang up" \in err.message
       \/ "timeout" \in err.message
    THEN TRUE
    ELSE IF "HTTP 5" \in err.message THEN TRUE
    ELSE IF "HTTP 4" \in err.message THEN FALSE
    ELSE TRUE

succeeded(o) == responseOk(o) /\ o.json

\* The breaker method submitCode calls for an outcome.
breakerCall(o) ==
    IF succeeded(o) THEN "recordSuccess"
    ELSE IF isCircuitTripError(thrownError(o)) THEN "recordFailure"
    ELSE "none"

(***************************************************************************)
(* The concurrency limiter                                                 *)
(***************************************************************************)
\* Faulty variant: the capacity test with <= for <.
slotFreeOffByOne(active) == active <= MAX_CONCURRENT_JUDGE0_TASKS

slotFree(active) == active < MAX_CONCURRENT_JUDGE0_TASKS

\* Faulty variant: a release that leaves the counter as it was.
releasedCountStuck(active) == Max(0, active)

\* releaseJudge0Slot: the counter after it.
releasedCount(active) == Max(0, active - 1)

\* Faulty variant: a release that wakes a waiter only if two or more wait.
hasWaiterBeyondFirst(queue) == Len(queue) > 1

\* releaseJudge0Slot: is there a waiter to wake?
hasWaiter(queue) == Len(queue) > 0

(***************************************************************************)
(* The rate limiter (lib/rateLimit.ts)                                     *)
(***************************************************************************)
WINDOW_MS == 60000

\* The admin quota.  It is only ever compared with the number of timestamps
\* of an entry, which stays far below this.
Infinity == 1000000

RATE_LIMITS == [admin |-> Infinity, author |-> 10, user |-> 3, guest |-> 1]

\* The requests of the model: req.user as the auth middleware left it
\* (hasUser FALSE: no user) and the caller's address.
Requests ==
    {[hasUser |-> FALSE, userId |-> "", role |-> "guest", ip |-> "ip1"],
     [hasUser |-> TRUE, userId |-> "u1", role |-> "user", ip |-> "ip1"],
     [hasUser |-> TRUE, userId |-> "a1", role |-> "admin", ip |-> "ip1"]}

getClientIP(req) == req.ip

\* null is written "".
getUserId(req) == IF req.hasUser /\ req.userId # "" THEN req.userId ELSE ""

getUserRole(req) == IF ~req.hasUser THEN "guest" ELSE req.role

\* userId || getClientIP(req)
requestKey(req) == IF getUserId(req) # "" THEN getUserId(req) ELSE getClientIP(req)

LimiterKeys == {requestKey(req) : req \in Requests}

\* The requests with a finite quota, their keys, and the quota of a key:
\* that of the role of the request it belongs to.
QuotaRequests == {req \in Requests : RATE_LIMITS[getUserRole(req)] # Infinity}

QuotaKeys == {requestKey(req) : req \in QuotaRequests}

quotaOf(key) ==
    RATE_LIMITS[getUserRole(CHOOSE req \in QuotaRequests : requestKey(req) = key)]

\* Faulty variant: a window that keeps the timestamp exactly WINDOW_MS old.
inWindowInclusive(ts, t) == ts >= t - WINDOW_MS

\* The filter recordRequest, getRequestCount and cleanupRateLimits apply.
inWindow(ts, t) == ts > t - WINDOW_MS

keptTimestamps(timestamps, t) == SelectSeq(timestamps, LAMBDA ts : inWindow(ts, t))

\* Math.min(...timestamps) of a sequence that is not empty.
oldestOf(timestamps) ==
    CHOOSE x \in {timestamps[i] : i \in DOMAIN timestamps} :
        \A i \in DOMAIN timestamps : x <= timestamps[i]

\* Map.set
mapSet(m, key, entry) ==
    [k \in DOMAIN m \cup {key} |-> IF k = key THEN entry ELSE m[k]]

\* Faulty variant: the quota test with > for >=.
quotaReachedStrict(currentCount, limit) == currentCount > limit

\* The test by which recordRequest rejects.
quotaReached(currentCount, limit) == currentCount >= limit

\* recordRequest(key, limit) at time t on map m: the map after the call and
\* the returned fields.
recordRequest(m, key, limit, t) ==
    LET entry == IF key \in DOMAIN m THEN m[key] ELSE << >>
        kept == keptTimestamps(entry, t)
        currentCount == Len(kept)
        remaining == Max(0, limit - currentCount - 1)
        oldestInWindow == IF Len(kept) > 0 THEN oldestOf(kept) ELSE t
        resetMs == Max(0, (oldestInWindow + WINDOW_MS) - t)
    IN  IF quotaReached(currentCount, limit)
        THEN [map |-> mapSet(m, key, kept), allowed |-> FALSE, remaining |-> 0,
              resetMs |-> resetMs]
        ELSE [map |-> mapSet(m, key, Append(kept, t)), allowed |-> TRUE,
              remaining |-> remaining, resetMs |-> resetMs]

\* Faulty variant: the middleware with the statements after its first return
\* in force, for every role.
executionRateLimitRecords(m, req, t) ==
    LET result == recordRequest(m, requestKey(req), RATE_LIMITS[getUserRole(req)], t)
    IN  [map |-> result.map, next |-> result.allowed,
         status |-> IF result.allowed THEN 0 ELSE 429,
         remaining |-> result.remaining]

\* executionRateLimit(req, res, next) at time t on map m: the map after the
\* call, whether next() was called, the status of the response it wrote (0:
\* none) and the X-RateLimit-Remaining header (-1: not set).  The function
\* returns next() before it reaches recordRequest.
executionRateLimit(m, req, t) ==
    [map |-> m, next |-> TRUE, status |-> 0, remaining |-> -1]

\* Faulty variant: an entry deleted as soon as one of its timestamps is old.
cleanupRateLimitsDropsEntry(m, t) ==
    [k \in {x \in DOMAIN m : Len(keptTimestamps(m[x], t)) = Len(m[x])} |-> m[k]]

\* cleanupRateLimits at time t.
cleanupRateLimits(m, t) ==
    [k \in {x \in DOMAIN m : Len(keptTimestamps(m[x], t)) # 0} |->
        keptTimestamps(m[k], t)]

\* No call of a limiter function.  removed, pruned: the keys whose entry a
\* sweep deleted, and those whose entry it kept with fewer timestamps.
NoLimiterCall ==
    [fn |-> "none", key |-> "", limit |-> 0, allowed |-> TRUE, remaining |-> -1,
     status |-> 0, prevAt |-> -1, removed |-> {}, pruned |-> {}]

(***************************************************************************)
(* Authentication (index.ts authMiddleware, lib/auth.ts verifyToken)       *)
(***************************************************************************)
\* The environment: is ENV.JUDGE0_AUTHN_TOKEN set, is ENV.JWT_SECRET set.
AuthEnvs == [serviceTokenSet : BOOLEAN, jwtSecretSet : BOOLEAN]

\* A bearer token by what verifyToken looks at: does jwt.verify accept it
\* (signature and expiry), has its payload an email, a name, and which role
\* ("": none).
Tokens ==
    [signed : BOOLEAN, email : BOOLEAN, name : BOOLEAN,
     role : {"admin", "author", "user", "root", ""}]

\* The token that is left of an Authorization header that is only "Bearer ".
EmptyToken == [signed |-> FALSE, email |-> FALSE, name |-> FALSE, role |-> "empty"]

\* The headers of a request: x-auth-token ("none": absent, "service": the
\* value of ENV.JUDGE0_AUTHN_TOKEN, "wrong": another value) and
\* Authorization (absent, or with the token that follows "Bearer ").
AuthRequests ==
    [xAuthToken : {"none", "service", "wrong"}, hasAuthorization : {TRUE},
     token : Tokens \cup {EmptyToken}]
        \cup [xAuthToken : {"none", "service", "wrong"}, hasAuthorization : {FALSE},
              token : {EmptyToken}]

NoUser == [hasUser |-> FALSE, userId |-> "", role |-> "guest"]

\* verifyToken: the payload as req.user, NoUser for null.
verifyToken(env, token) ==
    IF ~env.jwtSecretSet THEN NoUser
    ELSE IF ~token.signed THEN NoUser
    ELSE IF ~token.email \/ ~token.name \/ token.role = "" THEN NoUser
    ELSE IF token.role \notin {"admin", "author", "user"} THEN NoUser
    ELSE [hasUser |-> TRUE, userId |-> "u1", role |-> token.role]

\* authHeader?.replace(/^[Bb]earer\s+/, "") is truthy.
hasToken(req) == req.hasAuthorization /\ req.token # EmptyToken

\* authMiddleware: was next() called, the status of the response it wrote
\* itself (0: none), and req.user.
authMiddleware(env, req) ==
    IF env.serviceTokenSet /\ req.xAuthToken = "service"
    THEN [next |-> TRUE, status |-> 0,
          user |-> IF hasToken(req) THEN verifyToken(env, req.token)
                   ELSE [hasUser |-> TRUE, userId |-> "system", role |-> "admin"]]
    ELSE IF ~hasToken(req)
    THEN [next |-> TRUE, status |-> 0, user |-> NoUser]
    ELSE IF ~verifyToken(env, req.token).hasUser
    THEN [next |-> FALSE, status |-> 401, user |-> NoUser]
    ELSE [next |-> TRUE, status |-> 0, user |-> verifyToken(env, req.token)]

NotServed ==
    [done |-> FALSE, env |-> [serviceTokenSet |-> FALSE, jwtSecretSet |-> FALSE],
     req |-> [xAuthToken |-> "none", hasAuthorization |-> FALSE, token |-> EmptyToken],
     user |-> NoUser, status |-> 0, reachedLimiter |-> FALSE,
     reachedController |-> FALSE]

(***************************************************************************)
(* batchSubmit (controllers/batch.ts)                                      *)
(***************************************************************************)
\* No batch request yet.  n: testCases.length; order: the test cases for
\* which submitCode has been invoked, in the order of the invocations; mine:
\* the callers that are the batch's submitCode calls in progress; results:
\* the results array ("Error" for a call that threw); denied, fetches: how
\* many of the calls the breaker denied, and how many reached fetch.
NoBatch ==
    [state |-> "none", n |-> 0, order |-> << >>, mine |-> {}, results |-> << >>,
     denied |-> 0, fetches |-> 0]

\* Faulty variant: the calls started without waiting for the one before.
loopProceedsNoAwait(b) == Len(b.order) < b.n

\* The for loop reaches its next submitCode call: a test case is left and
\* the call awaited in the iteration before has returned or thrown.
loopProceeds(b) == Len(b.order) < b.n /\ b.mine = {}

\* The response batchSubmit writes after the loop.
batchResponse(b) == [status |-> 200, success |-> TRUE, results |-> b.results]

(***************************************************************************)
(* The client's batch route (app/api/execute/batch/route.ts).  A text is   *)
(* the sequence of its characters.                                         *)
(***************************************************************************)
Chars == {"a", "b", " ", "\n"}

\* \s
isSpace(c) == c \in {" ", "\n"}

Texts == UNION {[1..n -> Chars] : n \in 0..MaxLen}

RECURSIVE trimStart(_)
trimStart(s) ==
    IF Len(s) > 0 /\ isSpace(Head(s)) THEN trimStart(Tail(s)) ELSE s

RECURSIVE trimEnd(_)
trimEnd(s) ==
    IF Len(s) > 0 /\ isSpace(s[Len(s)]) THEN trimEnd(SubSeq(s, 1, Len(s) - 1)) ELSE s

\* String.prototype.trim
trim(s) == trimEnd(trimStart(s))

\* s.split(/\s+/): the pieces between the runs of whitespace, the empty
\* pieces before a leading and after a trailing run included; [""] for "".
RECURSIVE split(_)
split(s) ==
    IF \A i \in DOMAIN s : ~isSpace(s[i])
    THEN <<s>>
    ELSE LET i == CHOOSE x \in DOMAIN s :
                      isSpace(s[x]) /\ \A y \in 1..(x - 1) : ~isSpace(s[y])
             j == CHOOSE x \in i..Len(s) :
                      /\ \A y \in i..x : isSpace(s[y])
                      /\ (x = Len(s) \/ ~isSpace(s[x + 1]))
         IN  <<SubSeq(s, 1, i - 1)>> \o split(SubSeq(s, j + 1, Len(s)))

\* s.trim().split(/\s+/).filter((t) => t.length > 0)
tokensOf(s) == SelectSeq(split(trim(s)), LAMBDA t : Len(t) > 0)

\* Faulty variant: the two texts compared after trim() only.
tokensMatchTrimmed(actual, expected) == trim(actual) = trim(expected)

tokensMatch(actual, expected) ==
    LET actualTokens == tokensOf(actual)
        expectedTokens == tokensOf(expected)
    IN  IF Len(actualTokens) # Len(expectedTokens)
        THEN FALSE
        ELSE \A i \in DOMAIN actualTokens : actualTokens[i] = expectedTokens[i]

\* The test cases of a request: expectedOutput?: string (hasExpected FALSE:
\* the property is absent).
TestCases ==
    [hasExpected : {TRUE}, expectedOutput : Texts]
        \cup {[hasExpected |-> FALSE, expectedOutput |-> << >>]}

\* What mockExecuteTestCase returns: a compilation error or a runtime error
\* with stdout null (hasStdout FALSE), or status 3 with an output.
Executions ==
    [hasStdout : {TRUE}, stdout : Texts, statusId : {3}]
        \cup [hasStdout : {FALSE}, stdout : {<< >>}, statusId : {6, 11}]

\* testCase.expectedOutput ? tokensMatch(result.stdout ?? "", ...) :
\* result.status.id === 3.  An absent and an empty expectedOutput are falsy.
passedOf(testCase, result) ==
    IF testCase.hasExpected /\ Len(testCase.expectedOutput) > 0
    THEN tokensMatch(IF result.hasStdout THEN result.stdout ELSE << >>,
                     testCase.expectedOutput)
    ELSE result.statusId = 3

NotGraded ==
    [done |-> FALSE, hasExpected |-> FALSE, expectedOutput |-> << >>,
     hasStdout |-> FALSE, stdout |-> << >>, statusId |-> 0, passed |-> FALSE]

(***************************************************************************)
(* Steps                                                                   *)
(***************************************************************************)
\* lastOp: the breaker method the last step called, the breaker state before
\* the step, canProceed's decision, and in n the seconds an OPEN denial told
\* the caller to wait, or consecutiveSuccesses before a recordSuccess or
\* recordFailure call.
NoCall == [call |-> "none", pre |-> "CLOSED", allowed |-> TRUE, n |-> 0]

Init ==
    /\ cb = InitialBreaker
    /\ now = StartNow
    /\ activeJudge0Tasks = 0
    /\ waitQueue = << >>
    /\ resumeQueue = << >>
    /\ pc = [p \in Procs |-> "idle"]
    /\ admittedIn = [p \in Procs |-> "none"]
    /\ failRun = 0
    /\ suspended = [p \in Procs |-> "no"]
    /\ semHist = [acquires |-> 0, released |-> FALSE]
    /\ lastOp = NoCall
    /\ fetchStartedAt = [p \in Procs |-> Null]
    /\ userRateLimits = << >>
    /\ seenAt = [k \in LimiterKeys |-> -1]
    /\ limiterOut = NoLimiterCall
    /\ batch = NoBatch
    /\ graded = NotGraded
    /\ served = NotServed
    /\ acceptedAt = [k \in QuotaKeys |-> << >>]

\* submitCode up to its first await: canProceed, then acquireJudge0Slot up to
\* its own await.
Submit(p) ==
    /\ pc[p] = "idle"
    /\ LET r == canProceed(cb, now)
       IN  /\ cb' = r.cb
           /\ lastOp' = [call |-> "canProceed", pre |-> cb.state, allowed |-> r.allowed,
                         n |-> r.retryIn]
           /\ IF ~r.allowed
              THEN /\ UNCHANGED <<activeJudge0Tasks, waitQueue, pc, suspended, semHist>>
                   /\ admittedIn' = [admittedIn EXCEPT ![p] = "none"]
              ELSE /\ admittedIn' = [admittedIn EXCEPT ![p] = r.cb.state]
                   /\ semHist' = IF semHist.released THEN semHist
                                 ELSE [semHist EXCEPT !.acquires = @ + 1]
                   /\ IF slotFree(activeJudge0Tasks)
                      THEN /\ activeJudge0Tasks' = activeJudge0Tasks + 1
                           /\ pc' = [pc EXCEPT ![p] = "acquired"]
                           /\ UNCHANGED <<waitQueue, suspended>>
                      ELSE /\ waitQueue' = Append(waitQueue, p)
                           /\ pc' = [pc EXCEPT ![p] = "waiting"]
                           /\ suspended' = [suspended EXCEPT ![p] = "yes"]
                           /\ UNCHANGED activeJudge0Tasks
    /\ UNCHANGED <<now, failRun, resumeQueue>>

\* A woken waiter continues after the await in acquireJudge0Slot.  The
\* release only resolved its promise: the continuation is a later step, and
\* steps of other calls may come between the two.  Continuations run in the
\* order in which their promises were resolved.
Resume(p) ==
    /\ pc[p] = "woken"
    /\ Len(resumeQueue) > 0 /\ p = Head(resumeQueue)
    /\ resumeQueue' = Tail(resumeQueue)
    /\ activeJudge0Tasks' = activeJudge0Tasks + 1
    /\ pc' = [pc EXCEPT ![p] = "acquired"]
    /\ suspended' = [suspended EXCEPT ![p] = "no"]
    /\ lastOp' = [NoCall EXCEPT !.pre = cb.state]
    /\ UNCHANGED <<cb, now, waitQueue, admittedIn, failRun, semHist>>

\* submitCode continues after `await acquireJudge0Slot()`: the fetch is issued.
StartFetch(p) ==
    /\ pc[p] = "acquired"
    /\ pc' = [pc EXCEPT ![p] = "fetching"]
    /\ lastOp' = [NoCall EXCEPT !.pre = cb.state]
    /\ UNCHANGED <<cb, now, activeJudge0Tasks, waitQueue, resumeQueue, admittedIn,
                   failRun, suspended, semHist>>

\* The executor call ends with outcome o: the rest of the try block or the
\* catch block, then the finally block.
Complete(p, o) ==
    /\ pc[p] = "fetching"
    /\ LET call == breakerCall(o)
       IN  /\ call = "recordSuccess" => cb.consecutiveSuccesses < MaxCount
           /\ call = "recordFailure" => cb.consecutiveFailures < MaxCount
           /\ cb' = CASE call = "recordSuccess" -> recordSuccess(cb)
                      [] call = "recordFailure" -> recordFailure(cb, now)
                      [] OTHER -> cb
           /\ failRun' = CASE call = "recordSuccess" -> 0
                           [] call = "recordFailure" -> failRun + 1
                           [] OTHER -> failRun
           /\ admittedIn' = [admittedIn EXCEPT ![p] =
                                IF call = "none" THEN "unrecorded" ELSE "none"]
           /\ lastOp' = [call |-> call, pre |-> cb.state, allowed |-> TRUE,
                         n |-> IF call = "none" THEN 0 ELSE cb.consecutiveSuccesses]
    /\ activeJudge0Tasks' = releasedCount(activeJudge0Tasks)
    /\ semHist' = [acquires |-> 0, released |-> TRUE]
    /\ IF hasWaiter(waitQueue)
       THEN /\ waitQueue' = Tail(waitQueue)
            /\ resumeQueue' = Append(resumeQueue, Head(waitQueue))
            /\ pc' = [pc EXCEPT ![p] = "idle", ![Head(waitQueue)] = "woken"]
       ELSE /\ waitQueue' = waitQueue
            /\ resumeQueue' = resumeQueue
            /\ pc' = [pc EXCEPT ![p] = "idle"]
    /\ suspended' = [q \in Procs |->
                        IF suspended[q] = "yes" THEN "released" ELSE suspended[q]]
    /\ UNCHANGED now

\* Time passes.
Tick ==
    /\ now + TickMs <= MaxNow
    /\ now' = now + TickMs
    /\ lastOp' = [NoCall EXCEPT !.pre = cb.state]
    /\ UNCHANGED <<cb, activeJudge0Tasks, waitQueue, resumeQueue, pc, admittedIn,
                   failRun, suspended, semHist>>

Next ==
    \/ \E p \in Procs : Submit(p) /\ UNCHANGED otherVars
    \/ \E p \in Procs : Resume(p) /\ UNCHANGED otherVars
    \/ \E p \in Procs : StartFetch(p) /\ UNCHANGED otherVars
    \/ \E p \in Procs : \E o \in Outcomes : Complete(p, o) /\ UNCHANGED otherVars
    \/ Tick /\ UNCHANGED otherVars

Spec == Init /\ [][Next]_vars

\* The event loop runs every continuation that is ready: that of a woken
\* waiter and that of a call that has its slot; and the executor answers
\* every call, so that every holder of a slot releases it.
Fairness ==
    \A p \in Procs :
        /\ WF_vars(Resume(p) /\ UNCHANGED otherVars)
        /\ WF_vars(StartFetch(p) /\ UNCHANGED otherVars)
        /\ WF_vars(\E o \in Outcomes : Complete(p, o) /\ UNCHANGED otherVars)

\* The steps of submitCode with the clock standing still.  The limiter never
\* reads the clock or the breaker; while the breaker is CLOSED, which it can
\* remain for ever, every caller is admitted at any time, so the limiter is
\* used here in every way in which it can be used at all.
NextLive ==
    \/ \E p \in Procs : Submit(p) /\ UNCHANGED otherVars
    \/ \E p \in Procs : Resume(p) /\ UNCHANGED otherVars
    \/ \E p \in Procs : StartFetch(p) /\ UNCHANGED otherVars
    \/ \E p \in Procs : \E o \in Outcomes : Complete(p, o) /\ UNCHANGED otherVars

SpecLive == Init /\ [][NextLive]_vars /\ Fairness

(***************************************************************************)
(* The same steps with the time of each fetch kept, and an executor that   *)
(* may stay silent for longer than Judge0Service.timeout.                  *)
(***************************************************************************)
TimedStartFetch(p) ==
    /\ StartFetch(p)
    /\ fetchStartedAt' = [fetchStartedAt EXCEPT ![p] = now]

TimedComplete(p, o) ==
    /\ Complete(p, o)
    /\ fetchStartedAt' = [fetchStartedAt EXCEPT ![p] = Null]

\* The executor answers no call for timeout + 1 ms.  submitCode sets no
\* timer and passes no timeout or signal to fetch, so nothing else happens.
ExecutorSilent ==
    /\ \E p \in Procs : pc[p] = "fetching"
    /\ now <= MaxNow
    /\ now' = now + timeout + 1
    /\ lastOp' = [NoCall EXCEPT !.pre = cb.state]
    /\ UNCHANGED <<cb, activeJudge0Tasks, waitQueue, resumeQueue, pc, admittedIn,
                   failRun, suspended, semHist, fetchStartedAt>>

NextTimed ==
    \/ \E p \in Procs : Submit(p) /\ UNCHANGED otherVars
    \/ \E p \in Procs : Resume(p) /\ UNCHANGED otherVars
    \/ \E p \in Procs : TimedStartFetch(p) /\ UNCHANGED timedFrame
    \/ \E p \in Procs : \E o \in Outcomes :
          TimedComplete(p, o) /\ UNCHANGED timedFrame
    \/ Tick /\ UNCHANGED otherVars
    \/ ExecutorSilent /\ UNCHANGED timedFrame

SpecTimed == Init /\ [][NextTimed]_vars

(***************************************************************************)
(* The steps of batchSubmit.  Each of its submitCode calls runs as the     *)
(* idle caller of the lowest number; the callers other than the first are  *)
(* also requests that call submitCode on their own.                        *)
(***************************************************************************)
\* The callers that other requests may use.
Rivals == Procs \ {1}

\* The request arrives with n test cases: validation, then the loop starts.
BatchBegin(n) ==
    /\ batch.state = "none"
    /\ batch' = IF n = 0 THEN [NoBatch EXCEPT !.state = "rejected"]
                ELSE [NoBatch EXCEPT !.state = "running", !.n = n]
    /\ UNCHANGED <<cb, now, activeJudge0Tasks, waitQueue, resumeQueue, pc, admittedIn,
                   failRun, suspended, semHist, lastOp>>

\* The loop calls submitCode for its next test case; a call the breaker
\* denies throws at once and the catch block records the error.
BatchCall(p) ==
    /\ batch.state = "running"
    /\ loopProceeds(batch)
    /\ pc[p] = "idle" /\ \A q \in Procs : pc[q] = "idle" => p <= q
    /\ Submit(p)
    /\ batch' = IF canProceed(cb, now).allowed
                THEN [batch EXCEPT !.order = Append(@, Len(@) + 1),
                                   !.mine = @ \cup {p}]
                ELSE [batch EXCEPT !.order = Append(@, Len(@) + 1),
                                   !.results = Append(@, "Error"),
                                   !.denied = @ + 1]

\* A submitCode call of the batch issues its fetch.
BatchFetch(p) ==
    /\ p \in batch.mine
    /\ StartFetch(p)
    /\ batch' = [batch EXCEPT !.fetches = @ + 1]

\* A submitCode call of the batch returns or throws; the loop records it.
BatchReturn(p, o) ==
    /\ p \in batch.mine
    /\ Complete(p, o)
    /\ batch' = [batch EXCEPT !.mine = @ \ {p},
                              !.results = Append(@, IF succeeded(o) THEN "result"
                                                    ELSE "Error")]

\* The loop has ended: res.json({ success: true, results }).
BatchRespond ==
    /\ batch.state = "running"
    /\ Len(batch.order) = batch.n /\ Len(batch.results) = batch.n
    /\ batch' = [batch EXCEPT !.state = "done"]
    /\ UNCHANGED <<cb, now, activeJudge0Tasks, waitQueue, resumeQueue, pc, admittedIn,
                   failRun, suspended, semHist, lastOp>>

\* The clock stands still in this specification: during a batch it is only
\* read by the breaker, which therefore admits (CLOSED) or denies (OPEN) the
\* calls but starts no trial.
NextBatch ==
    \/ \E n \in 0..MaxBatch : BatchBegin(n) /\ UNCHANGED batchFrame
    \/ \E p \in Procs : BatchCall(p) /\ UNCHANGED batchFrame
    \/ \E p \in Procs : BatchFetch(p) /\ UNCHANGED batchFrame
    \/ \E p \in Procs : \E o \in Outcomes :
          BatchReturn(p, o) /\ UNCHANGED batchFrame
    \/ BatchRespond /\ UNCHANGED batchFrame
    \/ \E p \in Procs : Resume(p) /\ UNCHANGED otherVars
    \/ \E p \in Rivals \ batch.mine : Submit(p) /\ UNCHANGED otherVars
    \/ \E p \in Rivals \ batch.mine : StartFetch(p) /\ UNCHANGED otherVars
    \/ \E p \in Rivals \ batch.mine : \E o \in Outcomes :
          Complete(p, o) /\ UNCHANGED otherVars

SpecBatch == Init /\ [][NextBatch]_vars

(***************************************************************************)
(* The client's batch route: one test case executed and marked.            *)
(***************************************************************************)
GradeTestCase ==
    /\ ~graded.done
    /\ \E testCase \in TestCases : \E result \in Executions :
           graded' = [done |-> TRUE, hasExpected |-> testCase.hasExpected,
                      expectedOutput |-> testCase.expectedOutput,
                      hasStdout |-> result.hasStdout, stdout |-> result.stdout,
                      statusId |-> result.statusId,
                      passed |-> passedOf(testCase, result)]
    /\ UNCHANGED <<cb, now, activeJudge0Tasks, waitQueue, resumeQueue, pc, admittedIn,
                   failRun, suspended, semHist, lastOp, fetchStartedAt, limiterVars,
                   batch, served, acceptedAt>>

\* The map callback goes on to the request's next test case.
NextTestCase ==
    /\ graded.done
    /\ graded' = NotGraded
    /\ UNCHANGED <<cb, now, activeJudge0Tasks, waitQueue, resumeQueue, pc, admittedIn,
                   failRun, suspended, semHist, lastOp, fetchStartedAt, limiterVars,
                   batch, served, acceptedAt>>

NextGrade ==
    \/ GradeTestCase
    \/ NextTestCase

SpecGrade == Init /\ [][NextGrade]_vars

(***************************************************************************)
(* A request to /playground or /editor/batch passes the middleware chain:  *)
(* authMiddleware, executionRateLimit, then the controller.                *)
(***************************************************************************)
ServeRequest ==
    /\ \E env \in AuthEnvs : \E req \in AuthRequests :
          LET a == authMiddleware(env, req)
              r == executionRateLimit(userRateLimits,
                                      [hasUser |-> a.user.hasUser,
                                       userId |-> a.user.userId,
                                       role |-> a.user.role, ip |-> "ip1"], now)
          IN  /\ served' = [done |-> TRUE, env |-> env, req |-> req, user |-> a.user,
                            status |-> IF ~a.next THEN a.status
                                       ELSE IF ~r.next THEN r.status ELSE 0,
                            reachedLimiter |-> a.next,
                            reachedController |-> a.next /\ r.next]
              /\ userRateLimits' = IF a.next THEN r.map ELSE userRateLimits
    /\ UNCHANGED <<cb, now, activeJudge0Tasks, waitQueue, resumeQueue, pc, admittedIn,
                   failRun, suspended, semHist, lastOp, fetchStartedAt, seenAt,
                   limiterOut, batch, graded, acceptedAt>>

NextServe == ServeRequest

SpecServe == Init /\ [][NextServe]_vars

(***************************************************************************)
(* The rate limiter's steps.                                               *)
(***************************************************************************)
\* A request reaches executionRateLimit on /playground or /editor/batch.
Request(req) ==
    /\ LET r == executionRateLimit(userRateLimits, req, now)
       IN  /\ userRateLimits' = r.map
           /\ limiterOut' = [fn |-> "executionRateLimit", key |-> requestKey(req),
                             limit |-> RATE_LIMITS[getUserRole(req)],
                             allowed |-> r.next, remaining |-> r.remaining,
                             status |-> r.status,
                             prevAt |-> seenAt[requestKey(req)],
                             removed |-> {}, pruned |-> {}]
    /\ seenAt' = IF executionRateLimit(userRateLimits, req, now).next
                 THEN [seenAt EXCEPT ![requestKey(req)] = now]
                 ELSE seenAt
    /\ UNCHANGED <<now, gatewayVars>>

\* recordRequest(key, limit), called on its own.
RecordRequest(key, limit) ==
    /\ LET r == recordRequest(userRateLimits, key, limit, now)
       IN  /\ userRateLimits' = r.map
           /\ limiterOut' = [fn |-> "recordRequest", key |-> key, limit |-> limit,
                             allowed |-> r.allowed, remaining |-> r.remaining,
                             status |-> 0, prevAt |-> -1,
                             removed |-> {}, pruned |-> {}]
    /\ UNCHANGED <<now, seenAt, gatewayVars>>

\* The interval callback.
CleanupRateLimits ==
    /\ userRateLimits' = cleanupRateLimits(userRateLimits, now)
    /\ limiterOut' =
          [NoLimiterCall EXCEPT
              !.fn = "cleanupRateLimits",
              !.removed = DOMAIN userRateLimits \ DOMAIN userRateLimits',
              !.pruned = {k \in DOMAIN userRateLimits' :
                             Len(userRateLimits'[k]) < Len(userRateLimits[k])}]
    /\ UNCHANGED <<now, seenAt, gatewayVars>>

LimiterTick ==
    /\ now + LimiterTickMs <= LimiterMaxNow
    /\ now' = now + LimiterTickMs
    /\ limiterOut' = NoLimiterCall
    /\ UNCHANGED <<userRateLimits, seenAt, gatewayVars>>

\* The limiter as the routes use it.
NextLimiter ==
    \/ \E req \in Requests : Request(req) /\ UNCHANGED acceptedAt
    \/ CleanupRateLimits /\ UNCHANGED acceptedAt
    \/ LimiterTick /\ UNCHANGED acceptedAt

SpecLimiter == Init /\ [][NextLimiter]_vars

\* recordRequest applied to the keys and quotas of the model.
NextRecord ==
    \/ \E key \in LimiterKeys : \E limit \in {RATE_LIMITS.guest, RATE_LIMITS.user} :
          RecordRequest(key, limit) /\ UNCHANGED acceptedAt
    \/ CleanupRateLimits /\ UNCHANGED acceptedAt
    \/ LimiterTick /\ UNCHANGED acceptedAt

SpecRecord == Init /\ [][NextRecord]_vars

\* The last n elements of a sequence.
LastOf(q, n) == IF Len(q) <= n THEN q ELSE SubSeq(q, Len(q) - n + 1, Len(q))

\* recordRequest called for a key with the quota of the key's role, as the
\* statements of executionRateLimit after its first return call it.
QuotaRequest(key) ==
    /\ RecordRequest(key, quotaOf(key))
    /\ acceptedAt' =
          IF recordRequest(userRateLimits, key, quotaOf(key), now).allowed
          THEN [acceptedAt EXCEPT ![key] = LastOf(Append(@, now), quotaOf(key) + 1)]
          ELSE acceptedAt

NextQuota ==
    \/ \E key \in QuotaKeys : QuotaRequest(key)
    \/ CleanupRateLimits /\ UNCHANGED acceptedAt
    \/ LimiterTick /\ UNCHANGED acceptedAt

SpecQuota == Init /\ [][NextQuota]_vars

TypeOK ==
    /\ cb.state \in {"CLOSED", "OPEN", "HALF_OPEN"}
    /\ pc \in [Procs -> {"idle", "waiting", "woken", "acquired", "fetching"}]

(***************************************************************************)
(* Properties                                                              *)
(***************************************************************************)
InSubmit(p) == pc[p] # "idle"

\* The calls in progress that canProceed admitted as HALF_OPEN trials and for
\* which neither recordSuccess nor recordFailure has been called.
OutstandingTrials == {p \in Procs : InSubmit(p) /\ admittedIn[p] = "HALF_OPEN"}

\* C1: once failureThreshold recordFailure calls have occurred with no
\* recordSuccess between them the breaker is OPEN, and a canProceed call made
\* while OPEN with (now - openedAt) < openDurationMs is denied and leaves the
\* breaker OPEN.
C1_TripsAndDenies ==
    /\ (lastOp.call = "recordFailure" /\ failRun >= failureThreshold)
          => cb.state = "OPEN"
    /\ (lastOp.call = "canProceed" /\ lastOp.pre = "OPEN"
          /\ now - cb.openedAt < openDurationMs)
          => (~lastOp.allowed /\ cb.state = "OPEN")

C1_Witness ==
    /\ lastOp.call = "canProceed" /\ lastOp.pre = "OPEN" /\ ~lastOp.allowed
    /\ failRun >= failureThreshold
    /\ now - cb.openedAt > 0 /\ now - cb.openedAt < openDurationMs

\* C2: a canProceed call made while OPEN with (now - openedAt) >= openDurationMs
\* sets the state to HALF_OPEN, is itself admitted and reserves one trial slot;
\* no other step (a tick of the clock, a recorded result) takes the breaker out
\* of OPEN.
C2_LazyHalfOpen ==
    /\ (lastOp.call = "canProceed" /\ lastOp.pre = "OPEN"
          /\ now - cb.openedAt >= openDurationMs)
          => /\ cb.state = "HALF_OPEN"
             /\ lastOp.allowed
             /\ cb.halfOpenRequestsInFlight = 1
    /\ (lastOp.pre = "OPEN" /\ lastOp.call # "canProceed") => cb.state = "OPEN"

C2_Witness ==
    /\ lastOp.call = "canProceed" /\ lastOp.pre = "OPEN" /\ lastOp.allowed
    /\ cb.state = "HALF_OPEN" /\ cb.halfOpenRequestsInFlight = 1
    /\ \E p \in Procs : InSubmit(p) /\ admittedIn[p] = "HALF_OPEN"

\* C3: every call that canProceed admitted has had recordSuccess or
\* recordFailure called for it by the time submitCode has returned or thrown.
C3_AdmissionAlwaysRecorded ==
    \A p \in Procs : ~InSubmit(p) => admittedIn[p] # "unrecorded"

\* C4: while the state is HALF_OPEN, the outstanding trial calls never number
\* more than halfOpenMaxRequests.
C4_TrialsBounded ==
    cb.state = "HALF_OPEN" => Cardinality(OutstandingTrials) <= halfOpenMaxRequests

\* C5: 0 <= halfOpenRequestsInFlight <= halfOpenMaxRequests in every reachable
\* state.
C5_InFlightRange ==
    /\ cb.halfOpenRequestsInFlight >= 0
    /\ cb.halfOpenRequestsInFlight <= halfOpenMaxRequests

C5_Witness ==
    /\ cb.state = "HALF_OPEN"
    /\ cb.halfOpenRequestsInFlight = halfOpenMaxRequests
    /\ lastOp.call = "canProceed" /\ ~lastOp.allowed

\* C6: a recordFailure call made while HALF_OPEN leaves the state OPEN with
\* openedAt = now, halfOpenRequestsInFlight = 0 and consecutiveSuccesses = 0,
\* whatever number of successes had been counted.
C6_HalfOpenFailureReopens ==
    (lastOp.call = "recordFailure" /\ lastOp.pre = "HALF_OPEN")
        => /\ cb.state = "OPEN"
           /\ cb.openedAt = now
           /\ cb.halfOpenRequestsInFlight = 0
           /\ cb.consecutiveSuccesses = 0

C6_Witness ==
    /\ lastOp.call = "recordFailure" /\ lastOp.pre = "HALF_OPEN"
    /\ lastOp.n = successThreshold - 1
    /\ cb.state = "OPEN"

\* C7: a recordSuccess call made while HALF_OPEN that brings
\* consecutiveSuccesses to successThreshold leaves the state CLOSED with both
\* counters and halfOpenRequestsInFlight 0 and openedAt cleared; one that
\* brings it to less leaves the state HALF_OPEN with the success counted.
C7_RecoveryCloses ==
    (lastOp.call = "recordSuccess" /\ lastOp.pre = "HALF_OPEN")
        => IF lastOp.n + 1 >= successThreshold
           THEN /\ cb.state = "CLOSED"
                /\ cb.consecutiveFailures = 0
                /\ cb.consecutiveSuccesses = 0
                /\ cb.halfOpenRequestsInFlight = 0
                /\ cb.openedAt = Null
           ELSE /\ cb.state = "HALF_OPEN"
                /\ cb.consecutiveSuccesses = lastOp.n + 1

C7_Witness ==
    /\ lastOp.call = "recordSuccess" /\ lastOp.pre = "HALF_OPEN"
    /\ lastOp.n + 1 = successThreshold
    /\ cb.state = "CLOSED"

\* C8: an executor call that ends with a 4xx response leaves
\* consecutiveFailures and the breaker state as they were.
C8_4xxLeavesBreakerAlone ==
    [][\A p \in Procs : \A o \in Outcomes :
          (o.kind = "response" /\ o.status \div 100 = 4 /\ Complete(p, o))
              => /\ cb'.consecutiveFailures = cb.consecutiveFailures
                 /\ cb'.state = cb.state]_vars

\* C9: 0 <= activeJudge0Tasks <= MAX_CONCURRENT_JUDGE0_TASKS in every
\* reachable state.
C9_ActiveWithinCapacity ==
    /\ activeJudge0Tasks >= 0
    /\ activeJudge0Tasks <= MAX_CONCURRENT_JUDGE0_TASKS

Min(a, b) == IF a <= b THEN a ELSE b

\* C10: before any release, the first MAX_CONCURRENT_JUDGE0_TASKS acquire
\* calls have taken a slot without suspending and every later one is
\* suspended in the queue; a suspended caller is resumed only after a release
\* made since it suspended.
C10_SuspendsBeyondCapacity ==
    /\ ~semHist.released =>
          /\ activeJudge0Tasks = Min(semHist.acquires, MAX_CONCURRENT_JUDGE0_TASKS)
          /\ Len(waitQueue) = Max(0, semHist.acquires - MAX_CONCURRENT_JUDGE0_TASKS)
          /\ \A p \in Procs : pc[p] # "woken"
    /\ \A p \in Procs :
          /\ suspended[p] = "yes" => pc[p] = "waiting"
          /\ pc[p] = "woken" => suspended[p] = "released"
          /\ pc[p] = "waiting" => suspended[p] \in {"yes", "released"}

C10_Witness ==
    /\ ~semHist.released
    /\ semHist.acquires = MAX_CONCURRENT_JUDGE0_TASKS + 1
    /\ Len(waitQueue) = 1
    /\ suspended[Head(waitQueue)] = "yes"

\* The callers suspended in acquireJudge0Slot that have not obtained a slot
\* yet, longest-waiting first.
AwaitingSlot == resumeQueue \o waitQueue

\* Place of caller p in sequence q; past the end if p is not in it.
PlaceIn(p, q) ==
    IF \E i \in DOMAIN q : q[i] = p
    THEN CHOOSE i \in DOMAIN q : q[i] = p
    ELSE Len(q) + 1

\* Caller p obtains a slot in this step.
ObtainsSlot(p) == pc[p] \in {"idle", "woken"} /\ pc'[p] = "acquired"

\* C11: each release resumes at most one waiter, and no caller obtains a slot
\* while a caller that suspended before it called acquire (or, if it suspended
\* too, suspended before it) is still waiting for one.
C11_FifoHandOff ==
    [][/\ Cardinality({q \in Procs : pc[q] = "waiting" /\ pc'[q] = "woken"}) <= 1
       /\ \A p \in Procs :
             ObtainsSlot(p) =>
                \A q \in Procs \ {p} :
                    PlaceIn(q, AwaitingSlot) <= Len(AwaitingSlot)
                        => PlaceIn(p, AwaitingSlot) < PlaceIn(q, AwaitingSlot)]_vars

\* The calls that hold a slot: past acquireJudge0Slot, not yet past the
\* finally block.
SlotHolders == {p \in Procs : pc[p] \in {"acquired", "fetching"}}

\* C12: the counter is the number of calls that have acquired a slot and not
\* yet ended (each call that ended, with whatever outcome, has given its slot
\* back once); when no submitCode call is in progress the counter is 0 and
\* nobody waits.
C12_SlotReleasedOnce ==
    /\ activeJudge0Tasks = Cardinality(SlotHolders)
    /\ (\A p \in Procs : ~InSubmit(p))
          => (activeJudge0Tasks = 0 /\ Len(waitQueue) = 0 /\ Len(resumeQueue) = 0)

C12_Witness ==
    /\ \A p \in Procs : ~InSubmit(p)
    /\ semHist.released
    /\ lastOp.call = "recordFailure"
    /\ \E p \in Procs : admittedIn[p] = "unrecorded"
    /\ activeJudge0Tasks = 0

\* C14: a submitCode call that canProceed denies leaves the limiter's counter
\* and queues and every field of the breaker as they were, and the caller
\* neither holds a slot, nor waits for one, nor has issued an executor call.
C14_DenialChangesNothing ==
    [][\A p \in Procs :
          (Submit(p) /\ ~canProceed(cb, now).allowed)
              => /\ cb' = cb
                 /\ activeJudge0Tasks' = activeJudge0Tasks
                 /\ waitQueue' = waitQueue
                 /\ resumeQueue' = resumeQueue
                 /\ pc'[p] = "idle"]_vars

\* A call denied for want of a trial slot while other calls hold every slot
\* of the limiter.
C14_Witness ==
    /\ lastOp.call = "canProceed" /\ ~lastOp.allowed
    /\ lastOp.pre = "HALF_OPEN"
    /\ cb.halfOpenRequestsInFlight = halfOpenMaxRequests
    /\ activeJudge0Tasks = MAX_CONCURRENT_JUDGE0_TASKS

\* C20: a canProceed call made while OPEN with (now - openedAt) <
\* openDurationMs is denied with the OPEN reason and changes no field of the
\* breaker; the seconds it reports are openDurationMs - (now - openedAt)
\* rounded up to whole seconds; and from any state of such an OPEN period to
\* the next the seconds a call would report never increase.
C20_OpenDenialsRepeat ==
    [][/\ \A p \in Procs :
             (Submit(p) /\ cb.state = "OPEN" /\ now - cb.openedAt < openDurationMs)
                 => LET r == canProceed(cb, now)
                        left == openDurationMs - (now - cb.openedAt)
                    IN  /\ ~r.allowed /\ r.reason = "OPEN"
                        /\ cb' = cb
                        /\ r.retryIn * 1000 >= left
                        /\ (r.retryIn - 1) * 1000 < left
                        /\ lastOp'.n = r.retryIn
       /\ (/\ cb.state = "OPEN" /\ now - cb.openedAt < openDurationMs
           /\ cb'.state = "OPEN" /\ now' - cb'.openedAt < openDurationMs)
              => canProceed(cb', now').retryIn <= canProceed(cb, now).retryIn]_vars

\* An OPEN denial that rounds up, made later in the OPEN period than another
\* state of the model.
C20_Witness ==
    /\ lastOp.call = "canProceed" /\ lastOp.pre = "OPEN" /\ ~lastOp.allowed
    /\ cb.state = "OPEN"
    /\ now - cb.openedAt > 0
    /\ (openDurationMs - (now - cb.openedAt)) % 1000 # 0
    /\ lastOp.n * 1000 > openDurationMs - (now - cb.openedAt)
    /\ lastOp.n < openDurationMs \div 1000

\* C13: a call whose executor request has gone unanswered for longer than the
\* 60 s timeout has been ended: no call is still waiting for the executor
\* more than timeout ms after its fetch was issued.
C13_HungCallTimesOut ==
    \A p \in Procs :
        pc[p] = "fetching" => now - fetchStartedAt[p] <= timeout

\* C15: a request of a guest that executionRateLimit sees less than 60 s
\* after it passed on a request of the same key gets 429 with remaining = 0
\* and next() is not called; a guest request at least 61 s after the key's
\* last request passed on is passed on.
C15_GuestSecondRejected ==
    [][\A req \in Requests :
          (Request(req) /\ getUserRole(req) = "guest" /\ seenAt[requestKey(req)] >= 0)
              => /\ now - seenAt[requestKey(req)] < 60000
                      => /\ ~limiterOut'.allowed
                         /\ limiterOut'.status = 429
                         /\ limiterOut'.remaining = 0
                 /\ now - seenAt[requestKey(req)] >= 61000
                      => limiterOut'.allowed]_vars

\* C16: a request of an admin through executionRateLimit is passed on, and
\* leaves the map without an entry for the admin's key and otherwise as it was.
C16_AdminBypasses ==
    [][\A req \in Requests :
          (Request(req) /\ getUserRole(req) = "admin")
              => /\ limiterOut'.allowed
                 /\ limiterOut'.status # 429
                 /\ requestKey(req) \notin DOMAIN userRateLimits'
                 /\ userRateLimits' = userRateLimits]_vars

\* An admin's request passed on in the same millisecond as the admin's
\* request before it.
C16_Witness ==
    /\ limiterOut.fn = "executionRateLimit"
    /\ limiterOut.limit = Infinity
    /\ limiterOut.allowed
    /\ limiterOut.prevAt = now
    /\ limiterOut.key \notin DOMAIN userRateLimits

\* The timestamps recordRequest has to go by: those of the key's entry, none
\* if the key has no entry.
entryOf(m, key) == IF key \in DOMAIN m THEN m[key] ELSE << >>

\* C17 as stated: recordRequest(key, limit) at time now keeps the key's
\* timestamps that are not older than now - 60000; it rejects iff it kept
\* limit or more, and then returns remaining = 0 and adds no timestamp;
\* otherwise it appends now, accepts and returns remaining = limit - kept - 1.
C17_RecordRequestAsStated ==
    [][\A key \in LimiterKeys : \A limit \in {RATE_LIMITS.guest, RATE_LIMITS.user} :
          RecordRequest(key, limit)
              => LET retained == SelectSeq(entryOf(userRateLimits, key),
                                           LAMBDA ts : ~(ts < now - 60000))
                 IN  IF Len(retained) >= limit
                     THEN /\ ~limiterOut'.allowed
                          /\ limiterOut'.remaining = 0
                          /\ userRateLimits'[key] = retained
                     ELSE /\ limiterOut'.allowed
                          /\ limiterOut'.remaining = limit - Len(retained) - 1
                          /\ userRateLimits'[key] = Append(retained, now)]_vars

\* C17 amended: the same with the timestamps kept being those newer than
\* now - 60000 (the one exactly 60000 ms old is dropped).
C17_RecordRequest ==
    [][\A key \in LimiterKeys : \A limit \in {RATE_LIMITS.guest, RATE_LIMITS.user} :
          RecordRequest(key, limit)
              => LET retained == SelectSeq(entryOf(userRateLimits, key),
                                           LAMBDA ts : ts > now - 60000)
                 IN  IF Len(retained) >= limit
                     THEN /\ ~limiterOut'.allowed
                          /\ limiterOut'.remaining = 0
                          /\ userRateLimits'[key] = retained
                     ELSE /\ limiterOut'.allowed
                          /\ limiterOut'.remaining = limit - Len(retained) - 1
                          /\ userRateLimits'[key] = Append(retained, now)]_vars

\* A call rejected at the quota of 3, more than 60 s after the first step,
\* with three timestamps inside the window kept and the oldest of them older
\* than the call.
C17_Witness ==
    /\ limiterOut.fn = "recordRequest"
    /\ ~limiterOut.allowed
    /\ limiterOut.limit = RATE_LIMITS.user
    /\ limiterOut.remaining = 0
    /\ Len(userRateLimits[limiterOut.key]) = RATE_LIMITS.user
    /\ userRateLimits[limiterOut.key][1] < now
    /\ userRateLimits[limiterOut.key][1] > now - 60000
    /\ now > 60000

\* C18: batchSubmit invokes submitCode for the test cases in their order,
\* each call only after the one before has returned or thrown, so that at
\* most one call of the batch is in progress, holds a slot or has an
\* executor call outstanding; when it responds it has made exactly n calls,
\* and exactly n executor calls if the breaker denied none.
C18_BatchSequential ==
    /\ Cardinality(batch.mine) <= 1
    /\ Cardinality(batch.mine \cap SlotHolders) <= 1
    /\ batch.order = [k \in 1..Len(batch.order) |-> k]
    /\ Len(batch.order) = Len(batch.results) + Cardinality(batch.mine)
    /\ Len(batch.order) <= batch.n
    /\ batch.state = "done"
          => /\ Len(batch.order) = batch.n
             /\ Len(batch.results) = batch.n
             /\ batch.fetches + batch.denied = batch.n
             /\ batch.denied = 0 => batch.fetches = batch.n

\* A batch of MaxBatch test cases answered after the breaker admitted each
\* call, one call having failed, while another request holds a slot.
C18_Witness ==
    /\ batch.state = "done"
    /\ batch.n = MaxBatch
    /\ batch.denied = 0 /\ batch.fetches = MaxBatch
    /\ \E k \in DOMAIN batch.results : batch.results[k] = "Error"
    /\ activeJudge0Tasks > 0

\* The whitespace-separated tokens of a text: its maximal runs of characters
\* that are not whitespace, from left to right.
TokenStarts(s) ==
    {i \in DOMAIN s : ~isSpace(s[i]) /\ (i = 1 \/ isSpace(s[i - 1]))}

TokenEnd(s, i) ==
    CHOOSE j \in i..Len(s) :
        /\ \A y \in i..j : ~isSpace(s[y])
        /\ (j = Len(s) \/ isSpace(s[j + 1]))

TokenSequence(s) ==
    [k \in 1..Cardinality(TokenStarts(s)) |->
        LET i == CHOOSE x \in TokenStarts(s) :
                     Cardinality({y \in TokenStarts(s) : y < x}) = k - 1
        IN  SubSeq(s, i, TokenEnd(s, i))]

NoValidBearer(env, req) == ~hasToken(req) \/ ~verifyToken(env, req.token).hasUser

\* C21: a request without the service token whose bearer token is missing or
\* fails verification is handled as a guest: it reaches the rate limiter and
\* the controller, and is not answered 401.
C21_InvalidAuthIsGuest ==
    (/\ served.done
     /\ ~(served.env.serviceTokenSet /\ served.req.xAuthToken = "service")
     /\ NoValidBearer(served.env, served.req))
        => /\ served.reachedLimiter
           /\ served.reachedController
           /\ served.status # 401
           /\ ~served.user.hasUser

\* C22: when the breaker has denied every submitCode call of a batch, the
\* response of /editor/batch is a failure: its success flag is false.
C22_DenialIsStructuredFailure ==
    (batch.state = "done" /\ batch.n > 0 /\ batch.denied = batch.n)
        => ~batchResponse(batch).success

\* C23 as stated: immediately after every transition of the breaker's state
\* both consecutiveFailures and consecutiveSuccesses are 0.
C23_CountersResetAsStated ==
    [][cb'.state # cb.state
          => /\ cb'.consecutiveFailures = 0
             /\ cb'.consecutiveSuccesses = 0]_vars

\* C23 amended: immediately after every transition consecutiveSuccesses is 0;
\* consecutiveFailures is 0 after a transition to CLOSED, is left as it was
\* by the transition from OPEN to HALF_OPEN, and is one more than before
\* after a transition to OPEN (at least failureThreshold when from CLOSED).
C23_CountersAfterTransition ==
    [][cb'.state # cb.state
          => /\ cb'.consecutiveSuccesses = 0
             /\ cb'.state = "CLOSED" => cb'.consecutiveFailures = 0
             /\ cb'.state = "HALF_OPEN"
                   => cb'.consecutiveFailures = cb.consecutiveFailures
             /\ cb'.state = "OPEN"
                   => /\ cb'.consecutiveFailures = cb.consecutiveFailures + 1
                      /\ cb.state = "CLOSED"
                            => cb'.consecutiveFailures >= failureThreshold]_vars

\* The breaker has just moved from OPEN to HALF_OPEN with the failures that
\* opened it still counted.
C23_Witness ==
    /\ lastOp.call = "canProceed" /\ lastOp.pre = "OPEN"
    /\ cb.state = "HALF_OPEN"
    /\ cb.consecutiveFailures >= failureThreshold
    /\ cb.consecutiveSuccesses = 0

\* C24: while CLOSED every canProceed call is admitted and leaves the breaker
\* CLOSED; every recordSuccess leaves consecutiveFailures 0; a CLOSED breaker
\* is opened only by a recordFailure call, and by exactly the one that brings
\* the recordFailure calls since the last recordSuccess to failureThreshold;
\* with fewer such failures the breaker is never opened from CLOSED.
C24_ClosedOpensAtThreshold ==
    /\ (lastOp.call = "canProceed" /\ lastOp.pre = "CLOSED")
          => (lastOp.allowed /\ cb.state = "CLOSED")
    /\ lastOp.call = "recordSuccess" => cb.consecutiveFailures = 0
    /\ (lastOp.pre = "CLOSED" /\ cb.state # "CLOSED")
          => (lastOp.call = "recordFailure" /\ cb.state = "OPEN")
    /\ (lastOp.pre = "CLOSED" /\ lastOp.call = "recordFailure")
          => (cb.state = "OPEN" <=> failRun = failureThreshold)
    /\ cb.state = "CLOSED" => failRun < failureThreshold

\* The failure that opens the breaker arrives while another admitted call is
\* still with the executor and a third waits for a slot.
C24_Witness ==
    /\ lastOp.call = "recordFailure" /\ lastOp.pre = "CLOSED"
    /\ cb.state = "OPEN"
    /\ failRun = failureThreshold
    /\ \E p \in Procs : pc[p] = "fetching"
    /\ \E p \in Procs : pc[p] = "woken"

\* What a recordRequest call returns, and the entry it leaves for its key.
outcomeOf(m, key, limit, t) ==
    LET r == recordRequest(m, key, limit, t)
    IN  <<r.allowed, r.remaining, r.resetMs, r.map[key]>>

\* The times at which a later call can be made.
LaterTimes == {now + k * LimiterTickMs : k \in 0..LimiterTicks}

\* C25: a sweep at time now removes an entry iff none of its timestamps is
\* newer than now - 60000, leaves in every entry it keeps exactly the
\* timestamps newer than now - 60000, and leaves the outcome (allowed,
\* remaining, resetMs) and the resulting entry of a recordRequest call made
\* at any later time, for any key and quota, as they would have been.
C25_SweepChangesNoOutcome ==
    [][CleanupRateLimits
          => /\ \A key \in DOMAIN userRateLimits :
                   key \notin DOMAIN userRateLimits'
                      <=> ~\E i \in DOMAIN userRateLimits[key] :
                              userRateLimits[key][i] > now - 60000
             /\ DOMAIN userRateLimits' \subseteq DOMAIN userRateLimits
             /\ \A key \in DOMAIN userRateLimits' :
                   userRateLimits'[key] =
                      SelectSeq(userRateLimits[key], LAMBDA ts : ts > now - 60000)
             /\ \A key \in LimiterKeys :
                   \A limit \in {RATE_LIMITS.guest, RATE_LIMITS.user} :
                      \A t \in LaterTimes :
                         outcomeOf(userRateLimits', key, limit, t)
                            = outcomeOf(userRateLimits, key, limit, t)]_vars

\* A sweep has deleted the entry of one key and shortened that of another.
C25_Witness ==
    /\ limiterOut.fn = "cleanupRateLimits"
    /\ limiterOut.removed # {}
    /\ limiterOut.pruned # {}

\* C26: no executor call is started while the breaker is OPEN: a call issues
\* its fetch only when the state is CLOSED or HALF_OPEN, also when canProceed
\* admitted it earlier and it was suspended waiting for a slot since.
C26_NoFetchWhileOpen ==
    [][\A p \in Procs : StartFetch(p) => cb.state # "OPEN"]_vars

\* C27: whenever the state is HALF_OPEN and no submitCode call is in
\* progress, halfOpenRequestsInFlight is 0 (so that the next canProceed call
\* is admitted and the breaker can leave HALF_OPEN).
C27_HalfOpenNotStuck ==
    (cb.state = "HALF_OPEN" /\ \A p \in Procs : ~InSubmit(p))
        => cb.halfOpenRequestsInFlight = 0

\* C28: the success of a call that canProceed admitted while CLOSED and that
\* ends while the breaker is HALF_OPEN neither counts toward successThreshold
\* nor frees a trial slot of the period, and so does not close the breaker.
C28_LateSuccessIgnored ==
    [][\A p \in Procs : \A o \in Outcomes :
          (/\ Complete(p, o)
           /\ breakerCall(o) = "recordSuccess"
           /\ cb.state = "HALF_OPEN"
           /\ admittedIn[p] = "CLOSED")
              => /\ cb'.state = "HALF_OPEN"
                 /\ cb'.consecutiveSuccesses = cb.consecutiveSuccesses
                 /\ cb'.halfOpenRequestsInFlight = cb.halfOpenRequestsInFlight]_vars

\* C29: for every key used with the fixed quota L of its role, after any
\* sequence of recordRequest calls and sweeps: any L + 1 requests accepted
\* one after the other span at least 60000 ms (no interval [t, t + 60000)
\* holds more than L accepted requests); the key's entry never holds more
\* than L timestamps; and a request for another key leaves the key's entry
\* and the outcome of its next call, whenever made, as they were.
C29_QuotaPerWindow ==
    [][/\ \A key \in QuotaKeys :
             Len(acceptedAt'[key]) = quotaOf(key) + 1
                => acceptedAt'[key][quotaOf(key) + 1] - acceptedAt'[key][1] >= 60000
       /\ \A key \in QuotaKeys \cap DOMAIN userRateLimits' :
             Len(userRateLimits'[key]) <= quotaOf(key)
       /\ \A key \in QuotaKeys : \A other \in QuotaKeys \ {key} :
             QuotaRequest(other)
                => /\ entryOf(userRateLimits', key) = entryOf(userRateLimits, key)
                   /\ \A t \in LaterTimes :
                         outcomeOf(userRateLimits', key, quotaOf(key), t)
                            = outcomeOf(userRateLimits, key, quotaOf(key), t)]_vars

\* A request of the key with quota 3 rejected with three timestamps in its
\* entry, while the key with quota 1 has had two requests accepted exactly
\* 60000 ms apart.
C29_Witness ==
    /\ limiterOut.fn = "recordRequest" /\ ~limiterOut.allowed
    /\ limiterOut.key \in QuotaKeys
    /\ quotaOf(limiterOut.key) = RATE_LIMITS.user
    /\ Len(userRateLimits[limiterOut.key]) = RATE_LIMITS.user
    /\ \E key \in QuotaKeys :
          /\ quotaOf(key) = RATE_LIMITS.guest
          /\ Len(acceptedAt[key]) = 2
          /\ acceptedAt[key][2] - acceptedAt[key][1] = 60000

=============================================================================
